---- MODULE Spec2Model ----
(***************************************************************************)
(* Model of boards/Pynq-Z1/mqttsn/notebooks/02_mqtt_paho.ipynb: the code   *)
(* cells of the notebook executed top to bottom as one script, against an  *)
(* MQTT broker, the paho client's packet queue, the board's push buttons   *)
(* and LEDs, and a timer.                                                  *)
(*                                                                         *)
(* The script is sequential; pc is the statement it is about to execute.   *)
(* The environment is the buttons (pressed and released at any time while  *)
(* the script samples them), the broker (which answers connect and         *)
(* subscribe and relays matching publishes into the client's socket) and   *)
(* the timer.  A packet the broker has sent sits in `inbound` until a      *)
(* client.loop call reads it; a loop call that times out reads nothing.    *)
(***************************************************************************)
EXTENDS Integers, Sequences, FiniteSets, TLC

VARIABLES
    pc,            \* the statement the script executes next
    i,             \* the index of the running `for` loop (0 outside one)
    brokerOpen,    \* broker_mqtt: the broker process is running
    session,       \* broker side of the client's session
    subscriptions, \* broker side: topic filters the client subscribed to
    callbacks,     \* callback slots of `client` that are assigned
    inbound,       \* packets sent by the broker, not yet read by client.loop
    btn,           \* the physical state of the four push buttons
    pressesLeft,   \* button events the environment may still produce
    last,          \* script variable `last` (<<>> while unbound)
    current,       \* script variable `current` (<<>> while unbound)
    leds,          \* on/off state of the board's LEDs
    printed,       \* lines written to the notebook's output
    published,     \* every client.publish call made so far, in order
    time_records,  \* script variable `time_records` (<<>> while unbound)
    total_time,    \* script variable `total_time`
    \* ---- history variables (observations, never read by the script) ----
    toggles,       \* per LED, how many times led.toggle() was called
    nMessages,     \* how many times on_message was invoked
    lastSampled,   \* the most recent sample of buttons 0..2 (<<>> before one)
    firstSample,   \* the initial sample of buttons 0..2 (<<>> before it)
    rcs            \* the return codes of the CONNACKs the broker has sent

vars == <<pc, i, brokerOpen, session, subscriptions, callbacks, inbound, btn,
          pressesLeft, last, current, leds, printed, published, time_records,
          total_time, toggles, nMessages, lastSampled, firstSample, rcs>>

-----------------------------------------------------------------------------
(* Bounds of the model and constants of the program *)

\* button events (a press or a release) the environment produces in one run
MaxPresses == 2

\* benchmark samples whose duration the timer varies; later ones are nominal
MaxJitter == 1

\* range(3): the monitored buttons are 0, 1, 2
NumMonitored == 3

\* btns[3]: the button that ends the polling loop
ExitButton == 3

\* overlay.leds / overlay.buttons of the base overlay: four of each
NumLeds == 4

\* for _ in range(10): the number of client.loop calls after a request
WaitLoops == 10

\* num_records = 100
num_records == 100

Monitored == 0 .. (NumMonitored - 1)
Buttons == 0 .. ExitButton
Leds == 0 .. (NumLeds - 1)

\* Button.read() returns 0 (released) or 1 (pressed)
BtnValues == {0, 1}

\* CONNACK return codes the broker may answer with: 0 accepted, 5 refused
RcValues == {0, 5}

\* SUBACK granted QoS the broker may answer with: 0 granted, 128 failure
QosValues == {0, 128}

\* durations (in timer ticks) one client.publish call may take
ElapsedValues == {1, 2}

-----------------------------------------------------------------------------
(* Pure helpers *)

Digits == <<"0", "1", "2", "3", "4", "5", "6", "7", "8", "9">>

\* Python str() of a non-negative int
RECURSIVE ToStr(_)
ToStr(n) ==
    IF n < 10 THEN Digits[n + 1]
    ELSE ToStr(n \div 10) \o Digits[(n % 10) + 1]

\* 'button/' + str(index), as the levels the broker splits the topic into
ButtonTopic(index) == <<"button", ToStr(index)>>

\* "foo"
FooTopic == <<"foo">>

\* a filter that subscribes to every topic
SubPatternEverything == <<"#">>

\* "button/#"
SubPattern == <<"button", "#">>

Msg(topic, payload) == [topic |-> topic, payload |-> payload]

Line(text, args) == [text |-> text, args |-> args]

RECURSIVE Sum(_, _)
\* s[1] + ... + s[n]
Sum(s, n) == IF n = 0 THEN 0 ELSE Sum(s, n - 1) + s[n]

\* the messages of a sequence that carry the given topic, in order
SelectTopic(s, topic) == SelectSeq(s, LAMBDA m : m.topic = topic)

-----------------------------------------------------------------------------
(* The broker and the client library, as the notebook uses them *)

Packet(type, rc, topic, payload) ==
    [type |-> type, rc |-> rc, topic |-> topic, payload |-> payload]

ConnAck(rc) == Packet("CONNACK", rc, <<>>, "")

SubAck(granted_qos) == Packet("SUBACK", granted_qos, <<>>, "")

PublishPacket(m) == Packet("PUBLISH", 0, m.topic, m.payload)

\* MQTT topic filter matching, level by level: "#" matches the rest of the
\* topic (the parent level included), "+" matches one level
RECURSIVE TopicMatches(_, _)
TopicMatches(sub, topic) ==
    IF sub = <<>> THEN topic = <<>>
    ELSE IF Head(sub) = "#" THEN TRUE
    ELSE IF topic = <<>> THEN FALSE
    ELSE IF Head(sub) = "+" \/ Head(sub) = Head(topic)
         THEN TopicMatches(Tail(sub), Tail(topic))
    ELSE FALSE

\* the broker relays a publish to the client when its session is accepted
\* and one of its subscriptions matches the topic
Relays(sess, subs, m) ==
    /\ sess = "accepted"
    /\ \E f \in subs : TopicMatches(f, m.topic)

RECURSIVE RelayAll(_, _, _)
\* the packets the broker sends back for a sequence of publishes
RelayAll(sess, subs, msgs) ==
    IF msgs = <<>> THEN <<>>
    ELSE (IF Relays(sess, subs, Head(msgs))
          THEN <<PublishPacket(Head(msgs))>> ELSE <<>>)
         \o RelayAll(sess, subs, Tail(msgs))

RECURSIVE JoinTopic(_)
\* message.topic: the levels joined by "/"
JoinTopic(topic) ==
    IF Len(topic) = 1 THEN topic[1]
    ELSE topic[1] \o "/" \o JoinTopic(Tail(topic))

-----------------------------------------------------------------------------
(* The callbacks.  st is what a callback can touch: the notebook output and *)
(* the LEDs (with the counters that observe them).                          *)

\* an on_connect that examines rc
on_connect_ChecksRc(st, rc) ==
    [st EXCEPT !.printed = Append(@, Line(IF rc = 0 THEN "Connection Succeeded!"
                                           ELSE "Connection Failed!", <<>>))]

\* def on_connect(client, userdata, flags, rc)
on_connect(st, rc) ==
    [st EXCEPT !.printed = Append(@, Line("Connection Succeeded!", <<>>))]

\* def on_subscribe(client, userdata, mid, granted_qos)
on_subscribe(st, granted_qos) ==
    [st EXCEPT !.printed = Append(@, Line("Subscription Succeeded!", <<>>))]

\* led.toggle() on one LED
Toggle(st, led) ==
    [st EXCEPT !.leds[led] = ~@, !.toggles[led] = @ + 1]

RECURSIVE ToggleFrom(_, _)
\* for led in leds: led.toggle()  -- the LEDs from index `led` on
ToggleFrom(st, led) ==
    IF led >= NumLeds THEN st ELSE ToggleFrom(Toggle(st, led), led + 1)

\* an on_message that toggles the first LED only
on_message_FirstLedOnly(st, message) ==
    Toggle(
        [st EXCEPT
            !.printed = Append(@, Line("Received message",
                <<"b'" \o message.payload \o "'", JoinTopic(message.topic), ToStr(0)>>)),
            !.nMessages = @ + 1],
        0)

\* def on_message(client, userdata, message)
on_message(st, message) ==
    ToggleFrom(
        [st EXCEPT
            !.printed = Append(@, Line("Received message",
                <<"b'" \o message.payload \o "'", JoinTopic(message.topic), ToStr(0)>>)),
            !.nMessages = @ + 1],
        0)

\* the client library hands one packet to the callback assigned for it
HandlePacket(st, p, cbs) ==
    IF p.type = "CONNACK" /\ "on_connect" \in cbs THEN on_connect(st, p.rc)
    ELSE IF p.type = "SUBACK" /\ "on_subscribe" \in cbs THEN on_subscribe(st, p.rc)  \* rc carries granted_qos
    ELSE IF p.type = "PUBLISH" /\ "on_message" \in cbs THEN on_message(st, p)
    ELSE st

RECURSIVE HandleAll(_, _, _)
HandleAll(st, packets, cbs) ==
    IF packets = <<>> THEN st
    ELSE HandleAll(HandlePacket(st, Head(packets), cbs), Tail(packets), cbs)

CallbackState ==
    [printed |-> printed, leds |-> leds, toggles |-> toggles, nMessages |-> nMessages]

\* a client library in which every call reads the socket
PacketsReadByAnyCall(call, pending) == 0 .. pending

\* how many of the pending packets a call into the client library may read
\* and dispatch: the event loop reads any number of them (none when its
\* timeout expires first), every other call reads none
PacketsRead(call, pending) == IF call = "loop" THEN 0 .. pending ELSE {0}

\* one call into the client library: the packets it reads run their
\* callbacks, and the broker's replies to what it sent join the queue
ClientCall(call, replies) ==
    \E k \in PacketsRead(call, Len(inbound)) :
        LET st == HandleAll(CallbackState, SubSeq(inbound, 1, k), callbacks)
        IN  /\ inbound' = SubSeq(inbound, k + 1, Len(inbound)) \o replies
            /\ printed' = st.printed
            /\ leds' = st.leds
            /\ toggles' = st.toggles
            /\ nMessages' = st.nMessages

\* client.loop(timeout=...)
ClientLoop == ClientCall("loop", <<>>)

\* client.publish for each message of msgs, in order
PublishAll(msgs) ==
    /\ published' = published \o msgs
    /\ ClientCall("publish", RelayAll(session, subscriptions, msgs))

-----------------------------------------------------------------------------
(* The script's own logic, statement by statement *)

\* [btns[index].read() for index in range(3)]
ReadMonitored == [index \in 1 .. NumMonitored |-> btn[index - 1]]

\* a comparison that reports every input as changed
ChangedAlways(cur, lst) == [index \in 1 .. NumMonitored |-> TRUE]

\* changed = [current[index] != last[index] for index in range(3)]
Changed(cur, lst) == [index \in 1 .. NumMonitored |-> cur[index] /= lst[index]]

RECURSIVE ChangeMessagesFromFirstValue(_, _, _)
\* a comprehension that publishes current[0] on every changed topic
ChangeMessagesFromFirstValue(cur, changed, index) ==
    IF index >= NumMonitored THEN <<>>
    ELSE (IF changed[index + 1]
          THEN <<Msg(ButtonTopic(index), ToStr(cur[1]))>> ELSE <<>>)
         \o ChangeMessagesFromFirstValue(cur, changed, index + 1)

RECURSIVE ChangeMessagesFrom(_, _, _)
\* [client.publish('button/' + str(index), str(current[index]))
\*      if(changed[index]) else None for index in range(3)]
\* -- the publishes of the comprehension for the indices from `index` on
ChangeMessagesFrom(cur, changed, index) ==
    IF index >= NumMonitored THEN <<>>
    ELSE (IF changed[index + 1]
          THEN <<Msg(ButtonTopic(index), ToStr(cur[index + 1]))>> ELSE <<>>)
         \o ChangeMessagesFrom(cur, changed, index + 1)

ChangeMessages(cur, lst) == ChangeMessagesFrom(cur, Changed(cur, lst), 0)

\* a loop body that forgets to update last
NextLastKept(cur, lst) == lst

\* last = current
NextLast(cur, lst) == cur

\* a loop condition with the test inverted
LoopContinuesInverted(reading) == reading /= 0

\* while (btns[3].read()==0)
LoopContinues(reading) == reading = 0

\* [client.publish('button/'+str(index), "offline") for index in range(3)]
OfflineMessages == [index \in 1 .. NumMonitored |-> Msg(ButtonTopic(index - 1), "offline")]

\* the statement after the polling loop, print(current), names a variable
\* that only the loop body binds
PrintCurrentRaises(cur) == cur = <<>>

\* client.publish("foo", "bar")
BenchMessage == Msg(FooTopic, "bar")

\* time_records[i] = elapsed
RecordSample(records, index, elapsed) == [records EXCEPT ![index + 1] = elapsed]

\* an accumulation that overwrites instead of adding
AddSampleOverwrites(total, elapsed) == elapsed

\* total_time += elapsed
AddSample(total, elapsed) == total + elapsed

\* the durations the timer may report for sample `index`
ElapsedAt(index) == IF index < MaxJitter THEN ElapsedValues ELSE {1}

-----------------------------------------------------------------------------
(* Initial state: cell 1 has run (the Broker object exists, not yet open)  *)

Init ==
    /\ pc = "open"
    /\ i = 0
    /\ brokerOpen = FALSE
    /\ session = "none"
    /\ subscriptions = {}
    /\ callbacks = {}
    /\ inbound = <<>>
    /\ btn = [b \in Buttons |-> 0]
    /\ pressesLeft = MaxPresses
    /\ last = <<>>
    /\ current = <<>>
    /\ leds = [l \in Leds |-> FALSE]
    /\ printed = <<>>
    /\ published = <<>>
    /\ time_records = <<>>
    /\ total_time = 0
    /\ toggles = [l \in Leds |-> 0]
    /\ nMessages = 0
    /\ lastSampled = <<>>
    /\ firstSample = <<>>
    /\ rcs = <<>>

ClientIdle == UNCHANGED <<inbound, printed, leds, toggles, nMessages>>

ScriptVarsIdle == UNCHANGED <<last, current, time_records, total_time, lastSampled, firstSample>>

BrokerIdle == UNCHANGED <<brokerOpen, session, subscriptions, rcs>>

EnvIdle == UNCHANGED <<btn, pressesLeft>>

-----------------------------------------------------------------------------
(* Cells 3, 5, 7, 9, 12: broker start, client set-up, connect, subscribe *)

\* broker_mqtt.open()
BrokerOpen ==
    /\ pc = "open"
    /\ pc' = "setup"
    /\ brokerOpen' = TRUE
    /\ UNCHANGED <<i, session, subscriptions, rcs, callbacks, published>>
    /\ ClientIdle /\ ScriptVarsIdle /\ EnvIdle

\* client = mqtt.Client(); client.on_subscribe = ...; client.on_connect = ...
\* (on_publish is defined but never assigned)
Setup ==
    /\ pc = "setup"
    /\ pc' = "connect"
    /\ callbacks' = {"on_subscribe", "on_connect"}
    /\ UNCHANGED <<i, published>>
    /\ ClientIdle /\ ScriptVarsIdle /\ EnvIdle /\ BrokerIdle

\* client.connect("localhost", 1883): the broker answers with a CONNACK
\* carrying its return code
Connect ==
    /\ pc = "connect"
    /\ pc' = "conn_wait"
    /\ i' = 0
    /\ \E rc \in RcValues :
         /\ session' = IF rc = 0 THEN "accepted" ELSE "refused"
         /\ rcs' = Append(rcs, rc)
         /\ ClientCall("connect", <<ConnAck(rc)>>)
    /\ UNCHANGED <<brokerOpen, subscriptions, callbacks, published>>
    /\ ScriptVarsIdle /\ EnvIdle

\* for _ in range(10): client.loop(timeout=.1)   -- after connect
ConnWait ==
    /\ pc = "conn_wait"
    /\ i < WaitLoops
    /\ ClientLoop
    /\ i' = IF i + 1 < WaitLoops THEN i + 1 ELSE 0
    /\ pc' = IF i + 1 < WaitLoops THEN "conn_wait" ELSE "overlay"
    /\ UNCHANGED <<callbacks, published>>
    /\ ScriptVarsIdle /\ EnvIdle /\ BrokerIdle

\* overlay = BaseOverlay('base.bit'); leds = ...; btns = ...;
\* client.on_message = on_message
Overlay ==
    /\ pc = "overlay"
    /\ pc' = "subscribe"
    /\ callbacks' = callbacks \cup {"on_message"}
    /\ UNCHANGED <<i, published>>
    /\ ClientIdle /\ ScriptVarsIdle /\ EnvIdle /\ BrokerIdle

\* client.subscribe("button/#"): on an accepted session the broker answers
\* with a SUBACK, and registers the filter unless it answers with a failure
Subscribe ==
    /\ pc = "subscribe"
    /\ pc' = "sub_wait"
    /\ i' = 0
    /\ \/ /\ session = "accepted"
          /\ \E granted_qos \in QosValues :
               /\ subscriptions' = IF granted_qos = 0
                                   THEN subscriptions \cup {SubPattern}
                                   ELSE subscriptions
               /\ ClientCall("subscribe", <<SubAck(granted_qos)>>)
       \/ /\ session /= "accepted"
          /\ subscriptions' = subscriptions
          /\ ClientCall("subscribe", <<>>)
    /\ UNCHANGED <<brokerOpen, session, rcs, callbacks, published>>
    /\ ScriptVarsIdle /\ EnvIdle

\* for _ in range(10): client.loop(timeout=.1)   -- after subscribe
SubWait ==
    /\ pc = "sub_wait"
    /\ i < WaitLoops
    /\ ClientLoop
    /\ i' = IF i + 1 < WaitLoops THEN i + 1 ELSE 0
    /\ pc' = IF i + 1 < WaitLoops THEN "sub_wait" ELSE "sample"
    /\ UNCHANGED <<callbacks, published>>
    /\ ScriptVarsIdle /\ EnvIdle /\ BrokerIdle

-----------------------------------------------------------------------------
(* Cell 14: the button polling loop *)

\* last = [btns[index].read() for index in range(3)]
\* print("Waiting for button presses...")
Sample ==
    /\ pc = "sample"
    /\ pc' = "poll_check"
    /\ last' = ReadMonitored
    /\ lastSampled' = ReadMonitored
    /\ firstSample' = ReadMonitored
    /\ printed' = Append(printed, Line("Waiting for button presses...", <<>>))
    /\ UNCHANGED <<i, callbacks, published, inbound, leds, toggles, nMessages,
                   current, time_records, total_time>>
    /\ EnvIdle /\ BrokerIdle

\* while (btns[3].read()==0):
PollCheck ==
    /\ pc = "poll_check"
    /\ pc' = IF LoopContinues(btn[ExitButton]) THEN "poll_body" ELSE "print_current"
    /\ UNCHANGED <<i, callbacks, published>>
    /\ ClientIdle /\ ScriptVarsIdle /\ EnvIdle /\ BrokerIdle

\* current = [...]; changed = [...]; _ = [client.publish(...) ...]; last = current
PollBody ==
    /\ pc = "poll_body"
    /\ pc' = "poll_loop"
    /\ current' = ReadMonitored
    /\ lastSampled' = ReadMonitored
    /\ PublishAll(ChangeMessages(current', last))
    /\ last' = NextLast(current', last)
    /\ UNCHANGED <<i, callbacks, time_records, total_time, firstSample>>
    /\ EnvIdle /\ BrokerIdle

\* client.loop(timeout=.001)
PollLoop ==
    /\ pc = "poll_loop"
    /\ pc' = "poll_check"
    /\ ClientLoop
    /\ UNCHANGED <<i, callbacks, published>>
    /\ ScriptVarsIdle /\ EnvIdle /\ BrokerIdle

\* print(current): a NameError when the loop body never ran, which ends the
\* run of the notebook
PrintCurrent ==
    /\ pc = "print_current"
    /\ pc' = IF PrintCurrentRaises(current) THEN "error" ELSE "offline"
    /\ printed' = IF PrintCurrentRaises(current)
                  THEN Append(printed, Line("NameError", <<"current">>))
                  ELSE Append(printed, Line("print",
                           [index \in 1 .. Len(current) |-> ToStr(current[index])]))
    /\ UNCHANGED <<i, callbacks, published, inbound, leds, toggles, nMessages>>
    /\ ScriptVarsIdle /\ EnvIdle /\ BrokerIdle

\* _ = [client.publish('button/'+str(index), "offline") for index in range(3)]
Offline ==
    /\ pc = "offline"
    /\ pc' = "bench_init"
    /\ PublishAll(OfflineMessages)
    /\ UNCHANGED <<i, callbacks>>
    /\ ScriptVarsIdle /\ EnvIdle /\ BrokerIdle

-----------------------------------------------------------------------------
(* Cell 16: the publish benchmark.  Cell 18: broker close *)

\* num_records = 100; time_records = [0 for _ in range(num_records)]; total_time = 0
BenchInit ==
    /\ pc = "bench_init"
    /\ pc' = "bench"
    /\ i' = 0
    /\ time_records' = [n \in 1 .. num_records |-> 0]
    /\ total_time' = 0
    /\ UNCHANGED <<callbacks, published, last, current, lastSampled, firstSample>>
    /\ ClientIdle /\ EnvIdle /\ BrokerIdle

\* one iteration of: for i in range(num_records)
BenchIter ==
    /\ pc = "bench"
    /\ i < num_records
    /\ PublishAll(<<BenchMessage>>)
    /\ \E elapsed \in ElapsedAt(i) :
         /\ time_records' = RecordSample(time_records, i, elapsed)
         /\ total_time' = AddSample(total_time, elapsed)
    /\ i' = IF i + 1 < num_records THEN i + 1 ELSE 0
    /\ pc' = IF i + 1 < num_records THEN "bench" ELSE "report"
    /\ UNCHANGED <<callbacks, last, current, lastSampled, firstSample>>
    /\ EnvIdle /\ BrokerIdle

\* plt.bar(...); plt.show(); print("Average speed: " + ...)
BenchReport ==
    /\ pc = "report"
    /\ pc' = "close"
    /\ printed' = Append(printed, Line("Average speed",
                     <<ToStr(num_records), ToStr(total_time)>>))
    /\ UNCHANGED <<i, callbacks, published, inbound, leds, toggles, nMessages>>
    /\ ScriptVarsIdle /\ EnvIdle /\ BrokerIdle

\* broker_mqtt.close()
BrokerClose ==
    /\ pc = "close"
    /\ pc' = "done"
    /\ brokerOpen' = FALSE
    /\ session' = "none"
    /\ subscriptions' = {}
    /\ UNCHANGED <<i, rcs, callbacks, published>>
    /\ ClientIdle /\ ScriptVarsIdle /\ EnvIdle

-----------------------------------------------------------------------------
(* The environment: a button is pressed or released while cell 14 runs *)

PollingCell == {"sample", "poll_check", "poll_body", "poll_loop"}

Press ==
    /\ pc \in PollingCell
    /\ pressesLeft > 0
    /\ \E b \in Buttons : btn' = [btn EXCEPT ![b] = 1 - @]
    /\ pressesLeft' = pressesLeft - 1
    /\ UNCHANGED <<pc, i, callbacks, published>>
    /\ ClientIdle /\ ScriptVarsIdle /\ BrokerIdle

Script ==
    \/ BrokerOpen \/ Setup \/ Connect \/ ConnWait \/ Overlay
    \/ Subscribe \/ SubWait
    \/ Sample \/ PollCheck \/ PollBody \/ PollLoop \/ PrintCurrent \/ Offline
    \/ BenchInit \/ BenchIter \/ BenchReport \/ BrokerClose

Next == Script \/ Press

Spec == Init /\ [][Next]_vars

\* the script runs on as long as every call it makes returns
FairSpec == Init /\ [][Next]_vars /\ WF_vars(Script)

-----------------------------------------------------------------------------
(* Properties *)

IsChange(m) == m.topic \in {ButtonTopic(index) : index \in Monitored} /\ m.payload /= "offline"

IsOffline(m, index) == m = Msg(ButtonTopic(index), "offline")

\* the publishes a step adds to the log
NewPublishes == SubSeq(published', Len(published) + 1, Len(published'))

AfterLoop == {"print_current", "offline", "bench_init", "bench", "report", "close", "done", "error"}

AfterPollingCell == AfterLoop \ {"print_current", "offline"}

\* C1: in every iteration of the polling loop and for every monitored input:
\* when the value sampled in the iteration differs from last[index], the body
\* issues exactly one publish on 'button/<index>', with str(sampled value) as
\* payload; when it is equal, none; and the rest of the iteration (the loop
\* call and the condition check) publishes nothing.
C1_OnePublishPerChange ==
    [][ /\ (pc = "poll_body" /\ pc' = "poll_loop") =>
             \A index \in Monitored :
                 SelectTopic(NewPublishes, ButtonTopic(index)) =
                     IF lastSampled'[index + 1] /= last[index + 1]
                     THEN <<Msg(ButtonTopic(index), ToStr(lastSampled'[index + 1]))>>
                     ELSE <<>>
        /\ (pc \in {"poll_check", "poll_loop"}) => published' = published
      ]_vars

\* C1 witness: an iteration has published the change of input 1 and nothing
\* for the unchanged inputs 0 and 2
C1_Witness ==
    /\ pc = "poll_loop"
    /\ published = <<Msg(ButtonTopic(1), "1")>>
    /\ last = <<0, 1, 0>>

\* C2: once the polling cell has ended, whatever the buttons read, exactly one
\* 'offline' message has been published on each of button/0..2, and all three
\* come after every change message.
C2_OfflineOnEveryExit ==
    pc \in AfterPollingCell =>
        /\ \A index \in Monitored :
               Len(SelectSeq(published, LAMBDA m : IsOffline(m, index))) = 1
        /\ \A j, k \in 1 .. Len(published) :
               (IsChange(published[j]) /\ published[k].payload = "offline") => j < k

\* C3: at every loop-condition check the loop exits exactly when button 3
\* reads non-zero; after the exit no change message is published; and if
\* button 3 eventually reads true for good, the loop is eventually left.
C3_ExitOnButton3 ==
    /\ [][ (pc = "poll_check" /\ pc' /= pc) =>
               /\ (btn[ExitButton] /= 0) <=> (pc' = "print_current")
               /\ (btn[ExitButton] = 0) <=> (pc' = "poll_body") ]_vars
    /\ [][ (pc \in AfterLoop) =>
               (SelectSeq(published', IsChange) = SelectSeq(published, IsChange)) ]_vars
    /\ (<>[](btn[ExitButton] /= 0)) => <>(pc \in AfterLoop)

\* C3 witness: the loop ran, published a change, and was left at a check at
\* which button 3 read 1
C3_Witness ==
    /\ pc = "print_current"
    /\ btn[ExitButton] = 1
    /\ current /= <<>>
    /\ published /= <<>>

LoopCallSites == {"conn_wait", "sub_wait", "poll_loop"}

IsCallbackLine(l) ==
    l.text \in {"Connection Succeeded!", "Connection Failed!",
                "Subscription Succeeded!", "Received message"}

\* C4: callbacks fire only inside a client.loop call of the script: a step
\* that toggles an LED, prints a callback's line, invokes on_message or takes
\* a packet off the pending queue is a client.loop call; until then a packet
\* that has arrived stays pending.
C4_CallbacksOnlyInLoop ==
    [][ ( \/ leds' /= leds
          \/ toggles' /= toggles
          \/ nMessages' /= nMessages
          \/ SelectSeq(printed', IsCallbackLine) /= SelectSeq(printed, IsCallbackLine)
          \/ Len(inbound') < Len(inbound)
          \/ SubSeq(inbound', 1, Len(inbound)) /= inbound )
        => (pc \in LoopCallSites /\ published' = published) ]_vars

\* C4 witness: a relayed message is pending, undispatched, while the script
\* is between two loop calls
C4_Witness ==
    /\ pc = "poll_check"
    /\ nMessages = 1
    /\ \E n \in 1 .. Len(inbound) : inbound[n].type = "PUBLISH"

HasPrinted(text) == \E n \in 1 .. Len(printed) : printed[n].text = text

\* C5: once the ten loop calls after connect are over the connection has been
\* acknowledged and on_connect has fired, and once the ten loop calls after
\* subscribe are over the subscription has been acknowledged and on_subscribe
\* has fired.
C5_AckWithinTenLoops ==
    /\ pc \notin {"open", "setup", "connect", "conn_wait"} =>
           HasPrinted("Connection Succeeded!")
    /\ pc \notin {"open", "setup", "connect", "conn_wait", "overlay",
                  "subscribe", "sub_wait"} =>
           HasPrinted("Subscription Succeeded!")

ButtonTopicNames == {JoinTopic(ButtonTopic(index)) : index \in Monitored}

\* C6: the broker relays to the subscriber every message published on
\* button/0..2 (changes and 'offline' alike) and none published on 'foo':
\* every relayed packet and every message on_message received carries a
\* button topic, and while the subscription stands the relayed messages
\* (pending or received) are as many as the button messages published.
C6_WildcardMatchesButtonsOnly ==
    /\ \A n \in 1 .. Len(inbound) :
           inbound[n].type = "PUBLISH" =>
               JoinTopic(inbound[n].topic) \in ButtonTopicNames
    /\ \A n \in 1 .. Len(printed) :
           printed[n].text = "Received message" =>
               printed[n].args[2] \in ButtonTopicNames
    /\ subscriptions /= {} =>
           Len(SelectSeq(inbound, LAMBDA p : p.type = "PUBLISH")) + nMessages
               = Len(SelectSeq(published, LAMBDA m : m.topic /= FooTopic))

\* C6 witness: a change message was received by on_message, an 'offline'
\* message is relayed and pending, and 'foo' messages have been published
C6_Witness ==
    /\ pc = "report"
    /\ nMessages >= 1
    /\ \E n \in 1 .. Len(inbound) : inbound[n].payload = "offline"

\* C7: the benchmark makes exactly num_records publishes, each of 'bar' on
\* 'foo'; time_records has num_records entries throughout; after each
\* iteration total_time is the sum of the samples recorded so far, and at the
\* end the sum of all of them.
C7_BenchmarkTotals ==
    LET foo == SelectTopic(published, FooTopic)
        done == IF pc = "bench" THEN i
                ELSE IF pc \in {"report", "close", "done"} THEN num_records
                ELSE 0
    IN  /\ Len(foo) = done
        /\ \A n \in 1 .. Len(foo) : foo[n] = Msg(FooTopic, "bar")
        /\ pc \in {"bench", "report", "close", "done"} =>
               /\ Len(time_records) = num_records
               /\ total_time = Sum(time_records, done)

\* C7 witness: the benchmark is over and one sample was slower than the rest
C7_Witness ==
    /\ pc = "report"
    /\ total_time > num_records

\* C8: after n invocations of on_message every LED has been toggled exactly
\* n times, so all LEDs share the parity of n and no LED changes otherwise.
C8_EveryLedTogglesPerMessage ==
    \A l \in Leds :
        /\ toggles[l] = nMessages
        /\ leds[l] = (nMessages % 2 = 1)

\* C8 witness: on_message has run twice
C8_Witness == nMessages = 2

\* C9: throughout the polling loop last has one entry per monitored input,
\* and at the start of each iteration it equals the latest sample taken
\* before it.
C9_LastIsLatestSample ==
    /\ pc \in {"poll_check", "poll_body", "poll_loop", "print_current"} =>
           Len(last) = NumMonitored
    /\ pc \in {"poll_check", "poll_body"} => last = lastSampled

\* C9 witness: a new iteration starts after one that sampled a change
C9_Witness ==
    /\ pc = "poll_body"
    /\ last /= firstSample

\* the statement the script executes after the one at pc: it does not depend
\* on any return code
Successor ==
    CASE pc = "open" -> "setup"
      [] pc = "setup" -> "connect"
      [] pc = "connect" -> "conn_wait"
      [] pc = "conn_wait" -> IF i + 1 < WaitLoops THEN "conn_wait" ELSE "overlay"
      [] pc = "overlay" -> "subscribe"
      [] pc = "subscribe" -> "sub_wait"
      [] pc = "sub_wait" -> IF i + 1 < WaitLoops THEN "sub_wait" ELSE "sample"
      [] pc = "sample" -> "poll_check"
      [] pc = "poll_check" -> IF btn[ExitButton] = 0 THEN "poll_body" ELSE "print_current"
      [] pc = "poll_body" -> "poll_loop"
      [] pc = "poll_loop" -> "poll_check"
      [] pc = "print_current" -> IF current = <<>> THEN "error" ELSE "offline"
      [] pc = "offline" -> "bench_init"
      [] pc = "bench_init" -> "bench"
      [] pc = "bench" -> IF i + 1 < num_records THEN "bench" ELSE "report"
      [] pc = "report" -> "close"
      [] pc = "close" -> "done"
      [] OTHER -> pc

ClientCallSites ==
    {"connect", "conn_wait", "subscribe", "sub_wait", "poll_body", "poll_loop",
     "offline", "bench"}

RunEnded == {"done", "error"}

\* C11: the broker's lifecycle brackets all client activity: the broker is
\* open whenever the script is about to call connect, subscribe, publish or
\* client.loop (so open() came first), and once the run of the notebook has
\* ended close() has been its last step: the broker is closed, not left
\* running, and no client call follows.
C11_BrokerBracketsClient ==
    /\ pc \in ClientCallSites => brokerOpen
    /\ pc \in RunEnded => ~brokerOpen
    /\ ~brokerOpen => pc \in {"open", "done"}

\* the change messages published on 'button/<index>' so far, in order
ChangesOn(index) ==
    SelectSeq(published, LAMBDA m : m.topic = ButtonTopic(index) /\ m.payload /= "offline")

\* C12: for each monitored input, no two consecutive change messages on
\* 'button/<index>' carry the same payload and the first one differs from the
\* initial sample of the input; the inputs being 0/1-valued, the payloads on
\* each topic alternate, starting with the opposite of the initial sample.
C12_ChangePayloadsAlternate ==
    \A index \in Monitored :
        LET c == ChangesOn(index)
        IN  /\ \A n \in 1 .. (Len(c) - 1) : c[n].payload /= c[n + 1].payload
            /\ c /= <<>> => c[1].payload /= ToStr(firstSample[index + 1])
            /\ \A n \in 1 .. Len(c) :
                   c[n].payload = ToStr((firstSample[index + 1] + n) % 2)

\* C12 witness: an input was pressed and released, and both changes were
\* published on its topic
C12_Witness ==
    \E index \in Monitored :
        /\ Len(ChangesOn(index)) = 2
        /\ firstSample[index + 1] = 0

\* C13: at the end of every poll iteration, for each monitored input, the
\* latest change message on 'button/<index>' carries str(last[index]), and
\* while none has been published last[index] is still the initial sample.
C13_StreamReflectsLast ==
    pc \in {"poll_loop", "poll_check"} =>
        \A index \in Monitored :
            LET c == ChangesOn(index)
            IN  IF c = <<>>
                THEN last[index + 1] = firstSample[index + 1]
                ELSE c[Len(c)].payload = ToStr(last[index + 1])

\* C13 witness: an iteration has ended with a change published for input 2
\* and none for input 0
C13_Witness ==
    /\ pc = "poll_check"
    /\ ChangesOn(2) = <<Msg(ButtonTopic(2), "1")>>
    /\ ChangesOn(0) = <<>>
    /\ last = <<0, 0, 1>>

====
